---- MODULE Spec2Model ----
(***************************************************************************)
(* A model of shell.cpp: the read / tokenize / dispatch loop of the shell, *)
(* its built-ins (cd, help, exit) and the fork / exec / waitpid life cycle *)
(* of external commands.                                                   *)
(*                                                                         *)
(* Every process of the shell session is modelled: fork() duplicates the   *)
(* calling process (program counter, working directory, stdio buffer,      *)
(* registry), and all processes share the open file description of         *)
(* standard input (one kernel read offset).                                *)
(***************************************************************************)
EXTENDS Integers, Sequences, FiniteSets, TLC

\* Bounds of the model.
MaxLines == 3      \* lines available on standard input
MaxProcs == 3      \* process slots; fork() fails when none is free
MaxLineLen == 4    \* tokenize_line: every line up to this length is tried
MaxTokens == 65    \* tokenize_line: lines of up to this many tokens are tried

Pids == 0 .. (MaxProcs - 1)
NoPid == MaxProcs
Root == 0

EXIT_SUCCESS == 0
EXIT_FAILURE == 1
NoCode == 0 - 1    \* the process has no exit status (yet)
NoRet == 0 - 1     \* execute_cmd has not returned (yet)

(***************************************************************************)
(* Text.  A character is a one-character string, a line or a token is a    *)
(* sequence of characters.                                                 *)
(***************************************************************************)
DELIM == {" ", "\t", "\r", "\n", "BEL"}

CD == <<"c", "d">>
HELP == <<"h", "e", "l", "p">>
EXIT == <<"e", "x", "i", "t">>
LS == <<"l", "s">>

\* The lines standard input may hold (each ends with the newline getline keeps).
L_empty == <<" ", "\n">>
L_cd == <<"c", "d", "\n">>
L_cd_a == <<" ", "c", "d", " ", "\t", "/", "a", "\n">>
L_cd_up == <<"c", "d", " ", ".", ".", "\n">>
L_cd_x == <<"c", "d", " ", "/", "x", "\n">>
L_exit == <<"e", "x", "i", "t", " ", "1", "\n">>
L_help == <<"h", "e", "l", "p", "\n">>
L_ls == <<"l", "s", " ", "-", "l", "\n">>
L_no == <<"n", "o", "\n">>

LineSet == {L_empty, L_cd, L_cd_a, L_cd_up, L_cd_x, L_exit, L_help, L_ls, L_no}

(***************************************************************************)
(* The environment: the programs execvp finds, and the directories chdir   *)
(* reaches.  A program named like a built-in ("cd") is on the search path. *)
(***************************************************************************)
PATH == {LS, CD}

Dirs == {"/", "/a"}
ENOENT == "ENOENT"

\* chdir(path) issued in working directory d: the new directory, or ENOENT, which
\* stands for every failure of chdir (no such path, not a directory, no permission).
chdir(d, path) ==
    CASE path = <<"/">> -> "/"
      [] path = <<"/", "a">> -> "/a"
      [] path = <<".", ".">> -> "/"
      [] path = <<"a">> -> IF d = "/" THEN "/a" ELSE ENOENT
      [] OTHER -> ENOENT

(***************************************************************************)
(* tokenize_line: the strtok loop.  Leading delimiters are skipped, a      *)
(* token runs to the next delimiter or to the end of the line.             *)
(***************************************************************************)
RECURSIVE strtok(_, _, _, _)
strtok(line, i, token, tokens) ==
    IF i > Len(line)
    THEN IF token = <<>> THEN tokens ELSE Append(tokens, token)
    ELSE IF line[i] \in DELIM
         THEN strtok(line, i + 1, <<>>,
                     IF token = <<>> THEN tokens ELSE Append(tokens, token))
         ELSE strtok(line, i + 1, Append(token, line[i]), tokens)

tokenize_line(line) ==
    LET tokens == strtok(line, 1, <<>>, <<>>)
    IN  [args |-> tokens, n_args |-> Len(tokens)]

(***************************************************************************)
(* The registry of built-ins and the handlers.                             *)
(***************************************************************************)
InitBuiltInCmds == (CD :> "cmd_cd") @@ (HELP :> "cmd_help") @@ (EXIT :> "cmd_exit")

InitBuiltInDescription ==
    (CD :> "Change the current working directory")
    @@ (HELP :> "Help menu for the shell")
    @@ (EXIT :> "Exit the shell")

\* A routing that looks on the search path before it looks in the registry.
execute_cmd_route_path_first(registry, a) ==
    IF Len(a) = 0 THEN "empty"
    ELSE IF a[1] \in PATH THEN "launch_cmd"
    ELSE IF a[1] \in DOMAIN registry THEN registry[a[1]]
    ELSE "launch_cmd"

\* A routing without the n_args == 0 test: an empty vector goes on to launch_cmd.
execute_cmd_route_no_empty_check(registry, a) ==
    IF Len(a) > 0 /\ a[1] \in DOMAIN registry THEN registry[a[1]]
    ELSE "launch_cmd"

\* execute_cmd's routing: the handler the registry holds for args[0], or launch_cmd.
execute_cmd_route(registry, a) ==
    IF Len(a) = 0 THEN "empty"
    ELSE IF a[1] \in DOMAIN registry THEN registry[a[1]]
    ELSE "launch_cmd"

\* A cmd_cd that treats a missing path as "go to the root directory".
cmd_cd_default_dir(a, d) ==
    IF Len(a) < 2 THEN [ret |-> 1, cwd |-> "/"]
    ELSE IF chdir(d, a[2]) = ENOENT THEN [ret |-> 0, cwd |-> d]
    ELSE [ret |-> 1, cwd |-> chdir(d, a[2])]

\* cmd_cd: [ret, cwd] for argument vector a in working directory d.
cmd_cd(a, d) ==
    IF Len(a) < 2 THEN [ret |-> 0, cwd |-> d]
    ELSE IF chdir(d, a[2]) = ENOENT THEN [ret |-> 0, cwd |-> d]
    ELSE [ret |-> 1, cwd |-> chdir(d, a[2])]

\* A wait that is not repeated: whatever waitpid reports ends it.
WaitOnce(st) == FALSE

\* launch_cmd: the condition of the do-while loop around waitpid.
WaitLoopContinues(st) == ~(st = "exited") /\ ~(st = "signaled")

\* launch_cmd: its return values.
LaunchRet == 1
ExecFailureRet == 0

\* A fork-failure branch that falls through to the `return 1` of launch_cmd.
ForkFailureFallsThrough == LaunchRet

ForkFailureRet == 0

\* A read_line that exits with EXIT_FAILURE whenever getline returns -1.
ReadExitCodeNoFeof(eof) == EXIT_FAILURE

\* read_line: the exit status when getline returns -1 (eof: feof(stdin) holds).
ReadExitCode(eof) == IF eof THEN EXIT_SUCCESS ELSE EXIT_FAILURE

\* A launch_cmd that reports the outcome of the external command.
launch_cmd_parent_ret_by_status(st) == IF st = "exited" THEN 1 ELSE 0

\* launch_cmd, parent branch: the value returned once the loop has ended on status st.
launch_cmd_parent_ret(st) == LaunchRet

\* unordered_map::operator[]: a key the map does not hold is inserted.
OperatorIndex(map, k) == IF k \in DOMAIN map THEN map ELSE map @@ (k :> "")

\* An execute_cmd that evaluates built_in_cmds[args[0]] without asking count first.
execute_cmd_registry_unguarded(registry, a) ==
    IF Len(a) = 0 THEN registry ELSE OperatorIndex(registry, a[1])

\* execute_cmd: the registry after the call.  built_in_cmds[args[0]] is evaluated
\* only when built_in_cmds.count(args[0]) is not 0.
execute_cmd_registry(registry, a) ==
    IF Len(a) = 0 THEN registry
    ELSE IF a[1] \in DOMAIN registry THEN OperatorIndex(registry, a[1])
    ELSE registry

(***************************************************************************)
(* The heap blocks of one iteration of repl_loop: the line buffer getline  *)
(* allocates and the token array tokenize_line allocates.  Each is none    *)
(* (no block yet), live or freed; fault records a misuse.                  *)
(***************************************************************************)
NoMem == [line |-> "none", args |-> "none", fault |-> "ok"]

\* A pointer variable receives a fresh block.
AllocBlock(m, f) ==
    [m EXCEPT ![f] = "live", !.fault = IF m[f] = "live" THEN "leak" ELSE @]

\* free() of the block.
FreeBlock(m, f) ==
    IF m[f] = "live" THEN [m EXCEPT ![f] = "freed"]
    ELSE IF m[f] = "freed" THEN [m EXCEPT !.fault = "double_free"]
    ELSE m

\* A read through the pointer.
ReadBlock(m, f) ==
    IF m[f] = "live" THEN m ELSE [m EXCEPT !.fault = "use_after_free"]

\* read_line: getline allocates the line buffer.
read_line_mem(m) == AllocBlock(m, "line")

\* tokenize_line reads the line and allocates the token array; execute_cmd and
\* the handlers read the tokens, which point into the line.
dispatch_mem(m) ==
    ReadBlock(ReadBlock(AllocBlock(ReadBlock(m, "line"), "args"), "args"), "line")

\* A repl_loop that frees the line and leaves the token array allocated.
release_mem_line_only(m) == FreeBlock(m, "line")

\* repl_loop: free(line); free(args).
release_mem(m) == FreeBlock(FreeBlock(m, "line"), "args")

\* Pointers: a block and an offset in it, or the null pointer.
NUL == "NUL"
NullPtr == [blk |-> "null", off |-> 0]
LinePtr(i) == [blk |-> "line", off |-> i]
NoWrite == [pos |-> 0, len |-> 0]

Terminal == {"exited", "signaled"}

VARIABLES
    kpos,         \* lines the kernel has handed out (shared file offset of stdin)
    sigchld_ign,  \* SIGCHLD is ignored (disposition inherited at start)
    pc,           \* per process: where it is
    run,          \* per process: none / running / stopped / exited / signaled
    code,         \* per process: exit status
    cwd,          \* per process: working directory
    bufNext,      \* per process: index of the first line its stdio buffer holds
    buf,          \* per process: the lines its stdio buffer of stdin holds
    cur,          \* per process: index of the line being handled
    line,         \* per process: the line buffer read_line returned
    args,         \* per process: the argument vector
    ret,          \* per process: what execute_cmd returned
    wstatus,      \* per process: `status` of launch_cmd's wait loop
    child,        \* per process: `pid` of launch_cmd
    parent,       \* per process: the process that forked it
    pendingStop,  \* per process: it stopped and no waitpid has reported it
    built_in_cmds,         \* per process: the registry
    built_in_description,  \* per process: the descriptions
    \* history
    execFailed,   \* per process: it is a child whose execvp failed
    everStopped,  \* per process: it was stopped at least once
    lastOp,       \* per process: the last step it took
    gotLine,      \* per line: the processes getline returned it to, in order
    startCwd,     \* per process: the working directory it was created with
    cdAtFork,     \* per process: lastCd when it was created
    mem,          \* per process: the heap blocks of the current iteration
    lastCd,       \* target of the most recent successful cd of the session
    exitSeen      \* the exit built-in has been dispatched in the session

\* One call of tokenize_line, step by step.
VARIABLES
    tl_pc,            \* position in tokenize_line
    tl_in,            \* the characters of the line as it was passed in
    tl_line,          \* the line buffer: the characters and the terminating NUL
    strtok_save,      \* strtok's saved position in the buffer
    token,            \* the pointer the last strtok call returned
    tokens,           \* the token array, indexed from 0
    tokens_list_len,  \* the capacity of the token array
    pos,              \* the number of tokens stored
    lastWrite         \* index and capacity of the most recent write to tokens[]

tokVars == <<tl_pc, tl_in, tl_line, strtok_save, token, tokens, tokens_list_len, pos,
             lastWrite>>

regVars == <<built_in_cmds, built_in_description>>
sessVars == <<sigchld_ign, exitSeen>>
procVars == <<kpos, sigchld_ign, pc, run, code, cwd, bufNext, buf, cur, line, args, ret,
          wstatus, child, parent, pendingStop, built_in_cmds, built_in_description,
          execFailed, everStopped, lastOp, gotLine, startCwd, cdAtFork, lastCd,
          exitSeen, mem>>
vars == <<procVars, tokVars>>

NoDir == "nodir"
NoLine == <<>>

ShellInit ==
    /\ kpos = 0
    /\ sigchld_ign \in BOOLEAN
    /\ pc = [p \in Pids |-> IF p = Root THEN "prompt" ELSE "none"]
    /\ run = [p \in Pids |-> IF p = Root THEN "running" ELSE "none"]
    /\ code = [p \in Pids |-> NoCode]
    /\ cwd = [p \in Pids |-> IF p = Root THEN "/" ELSE NoDir]
    /\ bufNext = [p \in Pids |-> 1]
    /\ buf = [p \in Pids |-> <<>>]
    /\ cur = [p \in Pids |-> 0]
    /\ line = [p \in Pids |-> NoLine]
    /\ args = [p \in Pids |-> <<>>]
    /\ ret = [p \in Pids |-> NoRet]
    /\ wstatus = [p \in Pids |-> "unset"]
    /\ child = [p \in Pids |-> NoPid]
    /\ parent = [p \in Pids |-> NoPid]
    /\ pendingStop = [p \in Pids |-> FALSE]
    /\ built_in_cmds = [p \in Pids |-> InitBuiltInCmds]
    /\ built_in_description = [p \in Pids |-> InitBuiltInDescription]
    /\ execFailed = [p \in Pids |-> FALSE]
    /\ everStopped = [p \in Pids |-> FALSE]
    /\ lastOp = [p \in Pids |-> "none"]
    /\ gotLine = <<>>
    /\ startCwd = [p \in Pids |-> NoDir]
    /\ cdAtFork = [p \in Pids |-> NoDir]
    /\ lastCd = NoDir
    /\ exitSeen = FALSE
    /\ mem = [p \in Pids |-> NoMem]

\* No tokenize_line call is followed step by step.
TokIdle ==
    /\ tl_pc = "idle"
    /\ tl_in = <<>> /\ tl_line = <<>>
    /\ strtok_save = 0
    /\ token = NullPtr
    /\ tokens = <<>>
    /\ tokens_list_len = 0
    /\ pos = 0
    /\ lastWrite = NoWrite

Init == ShellInit /\ TokIdle

Active(p) == run[p] = "running"

\* print_prompt, in repl_loop.
Prompt(p) ==
    /\ Active(p) /\ pc[p] = "prompt"
    /\ pc' = [pc EXCEPT ![p] = "read"]
    /\ lastOp' = [lastOp EXCEPT ![p] = "prompt"]
    /\ UNCHANGED <<tokVars, mem, sessVars, regVars, kpos, run, code, cwd, bufNext, buf, cur, line,
                   args, ret, wstatus, child, parent, pendingStop, execFailed,
                   everStopped, gotLine, startCwd, cdAtFork, lastCd>>

\* exit(c), from wherever the process is.
Exit(p, c) ==
    /\ pc' = [pc EXCEPT ![p] = "done"]
    /\ run' = [run EXCEPT ![p] = "exited"]
    /\ code' = [code EXCEPT ![p] = c]

\* read_line: getline finds a line in the process's stdio buffer.
ReadBuffered(p) ==
    /\ Active(p) /\ pc[p] = "read"
    /\ buf[p] # <<>>
    /\ cur' = [cur EXCEPT ![p] = bufNext[p]]
    /\ line' = [line EXCEPT ![p] = Head(buf[p])]
    /\ buf' = [buf EXCEPT ![p] = Tail(buf[p])]
    /\ bufNext' = [bufNext EXCEPT ![p] = bufNext[p] + 1]
    /\ gotLine' = [gotLine EXCEPT ![bufNext[p]] = Append(@, p)]
    /\ pc' = [pc EXCEPT ![p] = "dispatch"]
    /\ lastOp' = [lastOp EXCEPT ![p] = "read_line"]
    /\ mem' = [mem EXCEPT ![p] = read_line_mem(mem[p])]
    /\ UNCHANGED <<tokVars, sessVars, regVars, kpos, run, code, cwd, args, ret, wstatus, child,
                   parent, pendingStop, execFailed, everStopped, startCwd, cdAtFork,
                   lastCd>>

\* read_line: getline refills the stdio buffer from the kernel (one line from a
\* terminal, up to a block of lines from a pipe or a file) and returns the first.
ReadFill(p) ==
    /\ Active(p) /\ pc[p] = "read"
    /\ buf[p] = <<>>
    /\ kpos < MaxLines
    /\ \E k \in 1 .. (MaxLines - kpos) :
          \E block \in [1 .. k -> LineSet] :
              /\ kpos' = kpos + k
              /\ line' = [line EXCEPT ![p] = Head(block)]
              /\ buf' = [buf EXCEPT ![p] = Tail(block)]
              /\ gotLine' = gotLine \o [i \in 1 .. k |-> IF i = 1 THEN <<p>> ELSE <<>>]
    /\ bufNext' = [bufNext EXCEPT ![p] = kpos + 2]
    /\ cur' = [cur EXCEPT ![p] = kpos + 1]
    /\ pc' = [pc EXCEPT ![p] = "dispatch"]
    /\ lastOp' = [lastOp EXCEPT ![p] = "read_line"]
    /\ mem' = [mem EXCEPT ![p] = read_line_mem(mem[p])]
    /\ UNCHANGED <<tokVars, sessVars, regVars, run, code, cwd, args, ret, wstatus, child, parent,
                   pendingStop, execFailed, everStopped, startCwd, cdAtFork, lastCd>>

\* read_line: getline returns -1 at end of input; exit(EXIT_SUCCESS).  End of input
\* is what this one read sees: a terminal delivers an end-of-file (Ctrl-D) to a single
\* read, and a later read of another process may find further lines.
ReadEOF(p) ==
    /\ Active(p) /\ pc[p] = "read"
    /\ buf[p] = <<>>
    /\ Exit(p, ReadExitCode(TRUE))
    /\ lastOp' = [lastOp EXCEPT ![p] = "eof"]
    /\ UNCHANGED <<tokVars, mem, sessVars, regVars, kpos, cwd, bufNext, buf, cur, line, args, ret,
                   wstatus, child, parent, pendingStop, execFailed, everStopped,
                   gotLine, startCwd, cdAtFork, lastCd>>

\* read_line: getline returns -1 on a read or allocation error; exit(EXIT_FAILURE).
ReadError(p) ==
    /\ Active(p) /\ pc[p] = "read"
    /\ buf[p] = <<>>
    /\ Exit(p, ReadExitCode(FALSE))
    /\ lastOp' = [lastOp EXCEPT ![p] = "read_error"]
    /\ UNCHANGED <<tokVars, mem, sessVars, regVars, kpos, cwd, bufNext, buf, cur, line, args, ret,
                   wstatus, child, parent, pendingStop, execFailed, everStopped,
                   gotLine, startCwd, cdAtFork, lastCd>>

\* The argument vector and the route of the line process p is about to dispatch.
Tokens(p) == tokenize_line(line[p]).args
Route(p) == execute_cmd_route(built_in_cmds[p], Tokens(p))

\* repl_loop, after read_line: `sizeof(line) == 0` compares the size of a pointer
\* with 0 and is never true, so every line read goes on to tokenize_line.
AtDispatch(p) == Active(p) /\ pc[p] = "dispatch"

\* tokenize_line: malloc or realloc fails; exit(EXIT_FAILURE).
TokenizeAllocFail(p) ==
    /\ AtDispatch(p)
    /\ Exit(p, EXIT_FAILURE)
    /\ lastOp' = [lastOp EXCEPT ![p] = "alloc_failed"]
    /\ UNCHANGED <<tokVars, mem, sessVars, regVars, kpos, cwd, bufNext, buf, cur, line, args, ret,
                   wstatus, child, parent, pendingStop, execFailed, everStopped,
                   gotLine, startCwd, cdAtFork, lastCd>>

\* tokenize_line, then execute_cmd with n_args = 0.
DispatchEmpty(p) ==
    /\ AtDispatch(p)
    /\ Route(p) = "empty"
    /\ args' = [args EXCEPT ![p] = Tokens(p)]
    /\ ret' = [ret EXCEPT ![p] = 1]
    /\ pc' = [pc EXCEPT ![p] = "release"]
    /\ lastOp' = [lastOp EXCEPT ![p] = "empty"]
    /\ mem' = [mem EXCEPT ![p] = dispatch_mem(mem[p])]
    /\ built_in_cmds' = [built_in_cmds EXCEPT ![p] = execute_cmd_registry(@, Tokens(p))]
    /\ UNCHANGED <<tokVars, sessVars, built_in_description, kpos, run, code, cwd, bufNext, buf, cur, line,
                   wstatus, child, parent, pendingStop, execFailed, everStopped,
                   gotLine, startCwd, cdAtFork, lastCd>>

\* tokenize_line, then execute_cmd calling cmd_cd.
DispatchCd(p) ==
    /\ AtDispatch(p)
    /\ Route(p) = "cmd_cd"
    /\ LET r == cmd_cd(Tokens(p), cwd[p])
       IN  /\ ret' = [ret EXCEPT ![p] = r.ret]
           /\ cwd' = [cwd EXCEPT ![p] = r.cwd]
           /\ lastCd' = IF r.ret = 1 THEN r.cwd ELSE lastCd
    /\ args' = [args EXCEPT ![p] = Tokens(p)]
    /\ pc' = [pc EXCEPT ![p] = "release"]
    /\ lastOp' = [lastOp EXCEPT ![p] = "cmd_cd"]
    /\ mem' = [mem EXCEPT ![p] = dispatch_mem(mem[p])]
    /\ built_in_cmds' = [built_in_cmds EXCEPT ![p] = execute_cmd_registry(@, Tokens(p))]
    /\ UNCHANGED <<tokVars, sessVars, built_in_description, kpos, run, code, bufNext, buf, cur, line,
                   wstatus, child, parent, pendingStop, execFailed, everStopped,
                   gotLine, startCwd, cdAtFork>>

\* tokenize_line, then execute_cmd calling cmd_help.  The listing reads
\* built_in_description with operator[], which inserts a key it does not hold.
DispatchHelp(p) ==
    /\ AtDispatch(p)
    /\ Route(p) = "cmd_help"
    /\ built_in_description' =
          [built_in_description EXCEPT ![p] =
              [k \in (DOMAIN @) \cup (DOMAIN built_in_cmds[p]) |->
                  IF k \in DOMAIN @ THEN @[k] ELSE ""]]
    /\ args' = [args EXCEPT ![p] = Tokens(p)]
    /\ ret' = [ret EXCEPT ![p] = 1]
    /\ pc' = [pc EXCEPT ![p] = "release"]
    /\ lastOp' = [lastOp EXCEPT ![p] = "cmd_help"]
    /\ mem' = [mem EXCEPT ![p] = dispatch_mem(mem[p])]
    /\ built_in_cmds' = [built_in_cmds EXCEPT ![p] = execute_cmd_registry(@, Tokens(p))]
    /\ UNCHANGED <<tokVars, sessVars, kpos, run, code, cwd, bufNext, buf, cur,
                   line, wstatus, child, parent, pendingStop, execFailed, everStopped,
                   gotLine, startCwd, cdAtFork, lastCd>>

\* tokenize_line, then execute_cmd calling cmd_exit; exit(EXIT_SUCCESS).
DispatchExit(p) ==
    /\ AtDispatch(p)
    /\ Route(p) = "cmd_exit"
    /\ Exit(p, EXIT_SUCCESS)
    /\ args' = [args EXCEPT ![p] = Tokens(p)]
    /\ lastOp' = [lastOp EXCEPT ![p] = "cmd_exit"]
    /\ exitSeen' = TRUE
    /\ mem' = [mem EXCEPT ![p] = dispatch_mem(mem[p])]
    /\ built_in_cmds' = [built_in_cmds EXCEPT ![p] = execute_cmd_registry(@, Tokens(p))]
    /\ UNCHANGED <<tokVars, sigchld_ign, built_in_description, kpos, cwd, bufNext, buf, cur, line, ret,
                   wstatus, child, parent, pendingStop, execFailed, everStopped,
                   gotLine, startCwd, cdAtFork, lastCd>>

FreePids == {c \in Pids : pc[c] = "none"}
NewPid == CHOOSE c \in FreePids : \A d \in FreePids : c <= d

\* tokenize_line, then execute_cmd calling launch_cmd; fork() succeeds.  The child
\* is a copy of the parent, about to call execvp; the parent enters the wait loop.
LaunchFork(p) ==
    /\ AtDispatch(p)
    /\ Route(p) = "launch_cmd"
    /\ FreePids # {}
    /\ LET c == NewPid
       IN  /\ pc' = [pc EXCEPT ![p] = "wait", ![c] = "exec"]
           /\ run' = [run EXCEPT ![c] = "running"]
           /\ cwd' = [cwd EXCEPT ![c] = cwd[p]]
           /\ bufNext' = [bufNext EXCEPT ![c] = bufNext[p]]
           /\ buf' = [buf EXCEPT ![c] = buf[p]]
           /\ cur' = [cur EXCEPT ![c] = cur[p]]
           /\ line' = [line EXCEPT ![c] = line[p]]
           /\ args' = [args EXCEPT ![p] = Tokens(p), ![c] = Tokens(p)]
           /\ wstatus' = [wstatus EXCEPT ![p] = "unset"]
           /\ child' = [child EXCEPT ![p] = c]
           /\ parent' = [parent EXCEPT ![c] = p]
           /\ built_in_cmds' =
                 [built_in_cmds EXCEPT
                     ![p] = execute_cmd_registry(@, Tokens(p)),
                     ![c] = execute_cmd_registry(built_in_cmds[p], Tokens(p))]
           /\ mem' = [mem EXCEPT ![p] = dispatch_mem(@), ![c] = dispatch_mem(mem[p])]
           /\ built_in_description' =
                 [built_in_description EXCEPT ![c] = built_in_description[p]]
           /\ lastOp' = [lastOp EXCEPT ![p] = "fork", ![c] = "forked"]
           /\ startCwd' = [startCwd EXCEPT ![c] = cwd[p]]
           /\ cdAtFork' = [cdAtFork EXCEPT ![c] = lastCd]
    /\ UNCHANGED <<tokVars, sessVars, kpos, code, ret, pendingStop, execFailed, everStopped,
                   gotLine, lastCd>>

\* tokenize_line, then execute_cmd calling launch_cmd; fork() fails.
LaunchForkFail(p) ==
    /\ AtDispatch(p)
    /\ Route(p) = "launch_cmd"
    /\ args' = [args EXCEPT ![p] = Tokens(p)]
    /\ ret' = [ret EXCEPT ![p] = ForkFailureRet]
    /\ pc' = [pc EXCEPT ![p] = "release"]
    /\ lastOp' = [lastOp EXCEPT ![p] = "fork_failed"]
    /\ mem' = [mem EXCEPT ![p] = dispatch_mem(mem[p])]
    /\ built_in_cmds' = [built_in_cmds EXCEPT ![p] = execute_cmd_registry(@, Tokens(p))]
    /\ UNCHANGED <<tokVars, sessVars, built_in_description, kpos, run, code, cwd, bufNext, buf, cur, line,
                   wstatus, child, parent, pendingStop, execFailed, everStopped,
                   gotLine, startCwd, cdAtFork, lastCd>>

\* launch_cmd, child branch: execvp replaces the program image.
ExecOk(c) ==
    /\ Active(c) /\ pc[c] = "exec"
    /\ Len(args[c]) > 0 /\ args[c][1] \in PATH
    /\ pc' = [pc EXCEPT ![c] = "ext"]
    /\ lastOp' = [lastOp EXCEPT ![c] = "exec"]
    /\ mem' = [mem EXCEPT ![c] = NoMem]
    /\ UNCHANGED <<tokVars, sessVars, regVars, kpos, run, code, cwd, bufNext, buf, cur, line,
                   args, ret, wstatus, child, parent, pendingStop, execFailed,
                   everStopped, gotLine, startCwd, cdAtFork, lastCd>>

\* launch_cmd, child branch: execvp returns -1; perror, then `return 0`, which
\* returns through execute_cmd into repl_loop, in the child.
ExecFail(c) ==
    /\ Active(c) /\ pc[c] = "exec"
    /\ (Len(args[c]) = 0 \/ args[c][1] \notin PATH)
    /\ execFailed' = [execFailed EXCEPT ![c] = TRUE]
    /\ ret' = [ret EXCEPT ![c] = ExecFailureRet]
    /\ pc' = [pc EXCEPT ![c] = "release"]
    /\ lastOp' = [lastOp EXCEPT ![c] = "exec_failed"]
    /\ mem' = [mem EXCEPT ![c] = ReadBlock(mem[c], "args")]
    /\ UNCHANGED <<tokVars, sessVars, regVars, kpos, run, code, cwd, bufNext, buf, cur, line,
                   args, wstatus, child, parent, pendingStop, everStopped, gotLine,
                   startCwd, cdAtFork, lastCd>>

\* launch_cmd, parent branch: one waitpid(pid, &status, WUNTRACED) and the test of
\* the loop.  waitpid blocks until the child stops or terminates.  With SIGCHLD
\* ignored a terminated child leaves no status behind: waitpid fails (ECHILD) and
\* does not write `status`, which the loop test then reads; if it was never
\* written, that read is of an uninitialized value.
WaitPid(p) ==
    /\ Active(p) /\ pc[p] = "wait"
    /\ LET c == child[p]
       IN  \/ /\ run[c] = "stopped" /\ pendingStop[c]
              /\ wstatus' = [wstatus EXCEPT ![p] = "stopped"]
              /\ pendingStop' = [pendingStop EXCEPT ![c] = FALSE]
           \/ /\ run[c] \in Terminal /\ ~sigchld_ign
              /\ wstatus' = [wstatus EXCEPT ![p] = run[c]]
              /\ UNCHANGED pendingStop
           \/ /\ run[c] \in Terminal /\ sigchld_ign
              /\ \E st \in IF wstatus[p] = "unset"
                           THEN {"exited", "signaled", "stopped"}
                           ELSE {wstatus[p]} :
                    wstatus' = [wstatus EXCEPT ![p] = st]
              /\ UNCHANGED pendingStop
    /\ IF WaitLoopContinues(wstatus'[p])
       THEN /\ lastOp' = [lastOp EXCEPT ![p] = "waitpid"]
            /\ UNCHANGED <<pc, ret>>
       ELSE /\ lastOp' = [lastOp EXCEPT ![p] = "launch_returned"]
            /\ pc' = [pc EXCEPT ![p] = "release"]
            /\ ret' = [ret EXCEPT ![p] = launch_cmd_parent_ret(wstatus'[p])]
    /\ UNCHANGED <<tokVars, mem, sessVars, regVars, kpos, run, code, cwd, bufNext, buf, cur, line,
                   args, child, parent, execFailed, everStopped, gotLine, startCwd,
                   cdAtFork, lastCd>>

\* The child of p that terminated and whose process-table slot is free again once
\* launch_cmd has returned in p; NoPid if there is none.
Reaped(p) ==
    IF child[p] # NoPid /\ run[child[p]] \in Terminal THEN child[p] ELSE NoPid

\* f with p's entry set to v and the entry of the reaped child of p set to init.
Upd(f, p, v, init) ==
    [q \in Pids |-> IF q = p THEN v ELSE IF q = Reaped(p) THEN init ELSE f[q]]

\* repl_loop: execute_cmd has returned (its value is dropped); free(line);
\* free(args); and back to the top of the loop.  The locals of launch_cmd are gone.
Release(p) ==
    /\ Active(p) /\ pc[p] = "release"
    /\ pc' = Upd(pc, p, "prompt", "none")
    /\ run' = Upd(run, p, run[p], "none")
    /\ code' = Upd(code, p, code[p], NoCode)
    /\ cwd' = Upd(cwd, p, cwd[p], NoDir)
    /\ bufNext' = Upd(bufNext, p, bufNext[p], 1)
    /\ buf' = Upd(buf, p, buf[p], <<>>)
    /\ cur' = Upd(cur, p, cur[p], 0)
    /\ line' = Upd(line, p, NoLine, NoLine)
    /\ args' = Upd(args, p, <<>>, <<>>)
    /\ ret' = Upd(ret, p, NoRet, NoRet)
    /\ wstatus' = Upd(wstatus, p, "unset", "unset")
    /\ child' = Upd(child, p, NoPid, NoPid)
    /\ parent' = Upd(parent, p, parent[p], NoPid)
    /\ pendingStop' = Upd(pendingStop, p, pendingStop[p], FALSE)
    /\ built_in_cmds' = Upd(built_in_cmds, p, built_in_cmds[p], InitBuiltInCmds)
    /\ built_in_description' =
          Upd(built_in_description, p, built_in_description[p], InitBuiltInDescription)
    /\ execFailed' = Upd(execFailed, p, execFailed[p], FALSE)
    /\ everStopped' = Upd(everStopped, p, everStopped[p], FALSE)
    /\ lastOp' = Upd(lastOp, p, "release", "none")
    /\ startCwd' = Upd(startCwd, p, startCwd[p], NoDir)
    /\ cdAtFork' = Upd(cdAtFork, p, cdAtFork[p], NoDir)
    /\ mem' = Upd(mem, p, release_mem(mem[p]), NoMem)
    /\ UNCHANGED <<tokVars, sessVars, kpos, gotLine, lastCd>>

(***************************************************************************)
(* The external program, once execvp has succeeded: it exits, is killed by *)
(* a signal, is stopped, or is resumed.                                    *)
(***************************************************************************)
ExtVarsUnchanged ==
    UNCHANGED <<tokVars, mem, sessVars, regVars, kpos, pc, cwd, bufNext, buf, cur, line, args, ret,
                wstatus, child, parent, execFailed, lastOp, gotLine, startCwd,
                cdAtFork, lastCd>>

ExtExit(c) ==
    /\ pc[c] = "ext" /\ run[c] = "running"
    /\ \E x \in {EXIT_SUCCESS, EXIT_FAILURE} : code' = [code EXCEPT ![c] = x]
    /\ run' = [run EXCEPT ![c] = "exited"]
    /\ UNCHANGED <<pendingStop, everStopped>>
    /\ ExtVarsUnchanged

ExtKilled(c) ==
    /\ pc[c] = "ext" /\ run[c] \in {"running", "stopped"}
    /\ run' = [run EXCEPT ![c] = "signaled"]
    /\ pendingStop' = [pendingStop EXCEPT ![c] = FALSE]
    /\ UNCHANGED <<code, everStopped>>
    /\ ExtVarsUnchanged

ExtStopped(c) ==
    /\ pc[c] = "ext" /\ run[c] = "running"
    /\ run' = [run EXCEPT ![c] = "stopped"]
    /\ pendingStop' = [pendingStop EXCEPT ![c] = TRUE]
    /\ everStopped' = [everStopped EXCEPT ![c] = TRUE]
    /\ UNCHANGED code
    /\ ExtVarsUnchanged

ExtResumed(c) ==
    /\ pc[c] = "ext" /\ run[c] = "stopped"
    /\ run' = [run EXCEPT ![c] = "running"]
    /\ pendingStop' = [pendingStop EXCEPT ![c] = FALSE]
    /\ UNCHANGED <<code, everStopped>>
    /\ ExtVarsUnchanged

Next ==
    \E p \in Pids :
        \/ Prompt(p)
        \/ ReadBuffered(p)
        \/ ReadFill(p)
        \/ ReadEOF(p)
        \/ ReadError(p)
        \/ TokenizeAllocFail(p)
        \/ DispatchEmpty(p)
        \/ DispatchCd(p)
        \/ DispatchHelp(p)
        \/ DispatchExit(p)
        \/ LaunchFork(p)
        \/ LaunchForkFail(p)
        \/ ExecOk(p)
        \/ ExecFail(p)
        \/ WaitPid(p)
        \/ Release(p)
        \/ ExtExit(p)
        \/ ExtKilled(p)
        \/ ExtStopped(p)
        \/ ExtResumed(p)

Spec == Init /\ [][Next]_vars

(***************************************************************************)
(* tokenize_line, one statement at a time.  The line is a buffer of        *)
(* characters ending with NUL; strtok returns pointers into that buffer    *)
(* and writes NUL over the delimiter that ends a token.                    *)
(***************************************************************************)
InitialTokensListLen == 32

Alphabet == DELIM \cup {"a", "b"}

\* A line of n one-character tokens, each followed by a space.
ManyTokens(n) == [i \in 1 .. 2 * n |-> IF i % 2 = 1 THEN "a" ELSE " "]

\* The lines tokenize_line is called with.
TokLines ==
    UNION {[1 .. n -> Alphabet] : n \in 0 .. MaxLineLen}
        \cup {ManyTokens(n) : n \in 0 .. MaxTokens}
        \cup LineSet

\* A strspn that skips nothing.
strspn_none(b, i) == i

\* s + strspn(s, DELIM): the first position from i on that holds no delimiter.
RECURSIVE strspn(_, _)
strspn(b, i) == IF b[i] \in DELIM THEN strspn(b, i + 1) ELSE i

\* s + strcspn(s, DELIM): the first position from i on that holds a delimiter or NUL.
RECURSIVE strcspn(_, _)
strcspn(b, i) == IF b[i] \in DELIM \cup {NUL} THEN i ELSE strcspn(b, i + 1)

\* A strtok that leaves the delimiter after a token in place.
TerminateNone(b, e) == b

\* *end = '\0' in strtok.
Terminate(b, e) == [b EXCEPT ![e] = NUL]

\* One strtok call scanning buffer b from position from: the buffer afterwards, the
\* pointer returned and the position saved for the next call.
StrtokCall(b, from) ==
    LET s == strspn(b, from)
    IN  IF b[s] = NUL
        THEN [buf |-> b, token |-> NullPtr, save |-> s]
        ELSE LET e == strcspn(b, s)
             IN  IF b[e] = NUL
                 THEN [buf |-> b, token |-> LinePtr(s), save |-> e]
                 ELSE [buf |-> Terminate(b, e), token |-> LinePtr(s), save |-> e + 1]

\* The C string at position i of buffer b.
RECURSIVE CString(_, _)
CString(b, i) == IF b[i] = NUL THEN <<>> ELSE <<b[i]>> \o CString(b, i + 1)

\* A resize test that waits until pos has passed the capacity.
NeedsResizeWhenPast(p, len) == p > len

\* tokenize_line: if (pos >= tokens_list_len - 1).
NeedsResize(p, len) == p >= len - 1

\* tokens[i] = v; a write outside the array leaves the array as it is.
Store(arr, i, v) == IF i \in DOMAIN arr THEN [arr EXCEPT ![i] = v] ELSE arr

\* realloc: the old elements, then uninitialised ones.
Realloc(arr, len) ==
    [i \in 0 .. (len - 1) |-> IF i \in DOMAIN arr THEN arr[i] ELSE "uninit"]

TokInit ==
    /\ ShellInit /\ ~sigchld_ign
    /\ tl_pc = "start"
    /\ tl_in \in TokLines
    /\ tl_line = tl_in \o <<NUL>>
    /\ strtok_save = 0
    /\ token = NullPtr
    /\ tokens = <<>>
    /\ tokens_list_len = 0
    /\ pos = 0
    /\ lastWrite = NoWrite

\* malloc fails: exit(EXIT_FAILURE).
TokMallocFail ==
    /\ tl_pc = "start"
    /\ tl_pc' = "exit_failure"
    /\ UNCHANGED <<procVars, tl_in, tl_line, strtok_save, token, tokens,
                   tokens_list_len, pos, lastWrite>>

\* malloc of the array, the first strtok call, pos = 0.
TokStart ==
    /\ tl_pc = "start"
    /\ LET r == StrtokCall(tl_line, 1)
       IN  /\ tl_line' = r.buf
           /\ token' = r.token
           /\ strtok_save' = r.save
    /\ tokens_list_len' = InitialTokensListLen
    /\ tokens' = [i \in 0 .. (InitialTokensListLen - 1) |-> "uninit"]
    /\ pos' = 0
    /\ tl_pc' = "loop"
    /\ UNCHANGED <<procVars, tl_in, lastWrite>>

\* One pass of while (token): the store, the next strtok call and the resize.
TokLoop ==
    /\ tl_pc = "loop" /\ token # NullPtr
    /\ LET r == StrtokCall(tl_line, strtok_save)
           stored == Store(tokens, pos, token)
       IN  /\ lastWrite' = [pos |-> pos, len |-> tokens_list_len]
           /\ pos' = pos + 1
           /\ tl_line' = r.buf
           /\ token' = r.token
           /\ strtok_save' = r.save
           /\ IF NeedsResize(pos + 1, tokens_list_len)
              THEN /\ tokens_list_len' = tokens_list_len * 2
                   /\ tokens' = Realloc(stored, tokens_list_len * 2)
              ELSE /\ tokens' = stored
                   /\ UNCHANGED tokens_list_len
    /\ UNCHANGED <<procVars, tl_in, tl_pc>>

\* A pass in which realloc fails: free(tokens); exit(EXIT_FAILURE).
TokLoopReallocFail ==
    /\ tl_pc = "loop" /\ token # NullPtr
    /\ NeedsResize(pos + 1, tokens_list_len)
    /\ LET r == StrtokCall(tl_line, strtok_save)
       IN  /\ tl_line' = r.buf
           /\ token' = r.token
           /\ strtok_save' = r.save
    /\ lastWrite' = [pos |-> pos, len |-> tokens_list_len]
    /\ pos' = pos + 1
    /\ tokens' = <<>>
    /\ tl_pc' = "exit_failure"
    /\ UNCHANGED <<procVars, tl_in, tokens_list_len>>

\* tokens[pos] = nullptr; return { tokens, pos }.
TokReturn ==
    /\ tl_pc = "loop" /\ token = NullPtr
    /\ tokens' = Store(tokens, pos, NullPtr)
    /\ lastWrite' = [pos |-> pos, len |-> tokens_list_len]
    /\ tl_pc' = "done"
    /\ UNCHANGED <<procVars, tl_in, tl_line, strtok_save, token, tokens_list_len, pos>>

TokNext ==
    \/ TokMallocFail
    \/ TokStart
    \/ TokLoop
    \/ TokLoopReallocFail
    \/ TokReturn

SpecTok == TokInit /\ [][TokNext]_vars

(***************************************************************************)
(* Properties.                                                             *)
(***************************************************************************)
ShellPcs == {"prompt", "read", "dispatch", "exec", "wait", "release"}
ReplPcs == {"prompt", "read", "dispatch", "wait", "release"}
BuiltInNames == {CD, HELP, EXIT}
InUse(p) == pc[p] # "none"

\* Process p takes the step that tokenizes its line and enters execute_cmd.
Dispatches(p) ==
    /\ pc[p] = "dispatch" /\ pc'[p] # "dispatch"
    /\ lastOp'[p] # "alloc_failed"

\* C1: a child of launch_cmd whose execvp failed has terminated: it is not back in
\* execute_cmd / repl_loop, and it emits no prompt, reads no line and dispatches
\* no command.
C1_ExecFailedChildTerminates ==
    \A p \in Pids :
        execFailed[p] => /\ pc[p] \notin ReplPcs
                         /\ run[p] \in Terminal

\* C2: when launch_cmd has returned in the parent, the child has exited or has been
\* killed by a signal; it is not merely stopped.
C2_ReturnsOnlyAfterTerminal ==
    \A p \in Pids :
        lastOp[p] = "launch_returned" =>
            /\ child[p] # NoPid
            /\ run[child[p]] \in Terminal

\* launch_cmd has returned for a child that was stopped and resumed on its way.
C2_Witness ==
    \E p \in Pids :
        /\ lastOp[p] = "launch_returned"
        /\ everStopped[child[p]]
        /\ run[child[p]] \in Terminal

\* C3: no process of the session enters execute_cmd while a child created by
\* launch_cmd has not reached a terminal state, and a dispatch creates one process
\* when it launches an external command and none otherwise.
C3_NoDispatchWhileChildAlive ==
    [][\A p \in Pids :
          Dispatches(p) =>
              /\ \A c \in Pids : (InUse(c) /\ parent[c] # NoPid) => run[c] \in Terminal
              /\ Cardinality({c \in Pids : ~InUse(c) /\ InUse(c)'})
                    = IF lastOp'[p] = "fork" THEN 1 ELSE 0]_vars

\* C4: while the shell process that dispatched a command that is not on the search
\* path has not returned from the dispatch, no later input line has been read: it is
\* that process which emits the next prompt and reads the next line.
C4_DispatcherReadsNextLine ==
    \A p \in Pids :
        (pc[p] = "wait" /\ args[p][1] \notin PATH) =>
            /\ Active(p)
            /\ \A i \in 1 .. Len(gotLine) : i > cur[p] => gotLine[i] = <<>>
            /\ \A c \in Pids : (InUse(c) /\ parent[c] = p) => lastOp[c] # "prompt"

\* C5: once exit has been dispatched the shell has terminated with status 0: no
\* process of the session is back in the loop, emits a prompt, reads or dispatches.
C5_ExitEndsTheShell ==
    /\ \A p \in Pids :
          lastOp[p] = "cmd_exit" => (run[p] = "exited" /\ code[p] = EXIT_SUCCESS)
    /\ exitSeen => \A p \in Pids : pc[p] \notin {"release", "prompt", "read", "dispatch"}

\* C6: a process created for an external command after a successful cd of the
\* session starts in the target of the most recent successful cd.
C6_ChildStartsInLastCd ==
    \A c \in Pids :
        (InUse(c) /\ parent[c] # NoPid /\ cdAtFork[c] # NoDir) =>
            startCwd[c] = cdAtFork[c]

\* C7: when cmd_cd fails (no path argument, or chdir fails) it returns 0, and
\* whenever it returns 0 the working directory of every process is unchanged.
C7_FailedCdKeepsCwd ==
    [][\A p \in Pids :
          (Dispatches(p) /\ lastOp'[p] = "cmd_cd") =>
              LET a == tokenize_line(line[p]).args
              IN  /\ (Len(a) < 2 \/ chdir(cwd[p], a[2]) = ENOENT) => ret'[p] = 0
                  /\ ret'[p] = 0 => cwd' = cwd]_vars

\* cmd_cd has failed on a path that does not exist, in a directory an earlier cd
\* had reached.
C7_Witness ==
    \E p \in Pids :
        /\ lastOp[p] = "cmd_cd" /\ ret[p] = 0
        /\ Len(args[p]) = 2
        /\ cwd[p] = "/a"

\* C8: execute_cmd calls the built-in handler of a first element cd, help or exit
\* and creates no process, also when a program of that name is on the search path;
\* for any other first element it calls launch_cmd with the same argument vector.
C8_RegistryDecidesRoute ==
    [][\A p \in Pids :
          Dispatches(p) =>
              LET a == tokenize_line(line[p]).args
              IN  /\ (a # <<>> /\ a[1] \in BuiltInNames) =>
                        /\ lastOp'[p] = InitBuiltInCmds[a[1]]
                        /\ \A c \in Pids : InUse(c)' = InUse(c)
                  /\ (a # <<>> /\ a[1] \notin BuiltInNames) =>
                        /\ lastOp'[p] \in {"fork", "fork_failed"}
                        /\ args'[p] = a
                        /\ lastOp'[p] = "fork" => args'[child'[p]] = a]_vars

\* The built-in cd has been called although a program named cd is on the path.
C8_Witness ==
    \E p \in Pids :
        /\ lastOp[p] = "cmd_cd"
        /\ args[p][1] \in PATH
        /\ FreePids = Pids \ {p}

\* C9: a shell process terminates only in cmd_exit (status 0), at end of input
\* (status 0, nothing read or dispatched for that read) or on a fatal read or
\* allocation error (non-zero status); nothing else ends it or sets its status.
C9_ShellExitsOnlyThreeWays ==
    [][\A p \in Pids :
          (pc[p] \in ShellPcs /\ Active(p)) =>
              /\ Active(p)' => code'[p] = code[p]
              /\ ~Active(p)' =>
                    LET a == tokenize_line(line[p]).args
                    IN  \/ /\ pc[p] = "dispatch" /\ a # <<>> /\ a[1] = EXIT
                           /\ run'[p] = "exited" /\ code'[p] = EXIT_SUCCESS
                        \/ /\ pc[p] = "read" /\ lastOp'[p] = "eof"
                           /\ run'[p] = "exited" /\ code'[p] = EXIT_SUCCESS
                           /\ gotLine' = gotLine /\ kpos' = kpos
                        \/ /\ pc[p] \in {"read", "dispatch"}
                           /\ lastOp'[p] \in {"read_error", "alloc_failed"}
                           /\ run'[p] = "exited" /\ code'[p] # EXIT_SUCCESS]_vars

\* The shell has ended at end of input with status 0, after lines were read, in a
\* directory a cd had reached.
C9_Witness ==
    /\ lastOp[Root] = "eof"
    /\ run[Root] = "exited" /\ code[Root] = EXIT_SUCCESS
    /\ kpos = MaxLines
    /\ cwd[Root] = "/a"

\* C10: when fork fails, launch_cmd returns 0 without waiting, no process has been
\* created, and the next step of the process leads to the next prompt.
C10_ForkFailureReturnsZero ==
    [][\A p \in Pids :
          /\ (Dispatches(p) /\ lastOp'[p] = "fork_failed") =>
                /\ ret'[p] = 0
                /\ pc'[p] = "release" /\ Active(p)'
                /\ child'[p] = NoPid
                /\ \A c \in Pids : InUse(c)' = InUse(c)
          /\ (lastOp[p] = "fork_failed" /\ lastOp'[p] # "fork_failed") =>
                (pc'[p] = "prompt" /\ Active(p)')]_vars

\* fork has failed although a process slot was free, and launch_cmd has returned.
C10_Witness ==
    \E p \in Pids :
        /\ lastOp[p] = "fork_failed"
        /\ pc[p] = "release"
        /\ FreePids # {}

HandlerOps == {"cmd_cd", "cmd_help", "cmd_exit", "fork", "fork_failed"}
AllDelim(l) == \A i \in 1 .. Len(l) : l[i] \in DELIM

\* C11: in every iteration in which dispatch returns, the line buffer and the
\* argument vector are live while they are read, and both have been freed, once
\* each, when the process is back at the prompt and reads the next line; no block is
\* freed twice, read after its release, or overwritten while live.
C11_BuffersReleasedOnce ==
    \A p \in Pids :
        /\ mem[p].fault = "ok"
        /\ pc[p] \in {"wait", "release"} => (mem[p].line = "live" /\ mem[p].args = "live")
        /\ pc[p] \in {"prompt", "read"} =>
              /\ mem[p].line \in {"none", "freed"} /\ mem[p].args = mem[p].line
              /\ lastOp[p] = "release" => mem[p].line = "freed"
        /\ pc[p] = "dispatch" => (mem[p].line = "live" /\ mem[p].args \in {"none", "freed"})

\* A child whose execvp failed has released its copies and is at the next prompt,
\* while its parent still holds its own.
C11_Witness ==
    \E p \in Pids :
        /\ execFailed[p] /\ lastOp[p] = "release"
        /\ mem[p].line = "freed" /\ mem[p].args = "freed"
        /\ mem[parent[p]].line = "live"

\* C12: a line of delimiters only yields no token; execute_cmd then returns 1 without
\* calling a handler or creating a process, the working directory stays, the loop
\* goes on; and no handler and no launch_cmd call receives an empty vector.
C12_EmptyLineShortCircuits ==
    [][\A p \in Pids :
          Dispatches(p) =>
              /\ AllDelim(line[p]) =>
                    /\ lastOp'[p] = "empty" /\ args'[p] = <<>>
                    /\ ret'[p] = 1 /\ pc'[p] = "release" /\ Active(p)'
                    /\ cwd' = cwd
                    /\ \A c \in Pids : InUse(c)' = InUse(c)
              /\ lastOp'[p] \in HandlerOps => args'[p] # <<>>]_vars

\* An empty line has been dispatched in a directory a cd had reached.
C12_Witness ==
    \E p \in Pids :
        /\ lastOp[p] = "empty" /\ pc[p] = "release"
        /\ args[p] = <<>>
        /\ cwd[p] = "/a"

\* C15: when launch_cmd has returned in the parent, it has returned 1, whatever
\* terminal state the child reached.
C15_ParentReturnsOne ==
    \A p \in Pids : lastOp[p] = "launch_returned" => ret[p] = 1

\* launch_cmd has returned for a child that a signal killed.
C15_Witness ==
    \E p \in Pids :
        /\ lastOp[p] = "launch_returned"
        /\ ~sigchld_ign
        /\ run[child[p]] = "signaled" /\ wstatus[p] = "signaled"

\* C16: once the child is terminal, a pass through the wait loop does not read a
\* status that was never written, and it ends the loop: launch_cmd returns.
C16_WaitLoopEndsOnceChildTerminal ==
    [][\A p \in Pids :
          (/\ pc[p] = "wait" /\ Active(p)
           /\ run[child[p]] \in Terminal
           /\ <<lastOp[p], wstatus[p], pc[p]>>' # <<lastOp[p], wstatus[p], pc[p]>>) =>
              /\ ~(sigchld_ign /\ wstatus[p] = "unset")
              /\ pc'[p] = "release"]_vars

\* C17: getline has returned every line of standard input at most once in the whole
\* session, and no line is returned before the lines in front of it.
C17_EachLineDispatchedOnce ==
    \A i \in 1 .. Len(gotLine) :
        /\ Len(gotLine[i]) <= 1
        /\ gotLine[i] # <<>> => \A j \in 1 .. i : gotLine[j] # <<>>

\* C19: the registry of every process holds exactly cd, help and exit, each with
\* its original handler.
C19_RegistryNeverChanges ==
    \A p \in Pids :
        /\ DOMAIN built_in_cmds[p] = {CD, HELP, EXIT}
        /\ built_in_cmds[p] = InitBuiltInCmds

\* A process that had dispatched a name the registry does not hold has dispatched
\* help afterwards.
C19_Witness ==
    \E p \in Pids :
        /\ execFailed[p]
        /\ lastOp[p] = "cmd_help"
        /\ kpos = MaxLines

\* The positions of line l where a run of non-delimiter characters starts.
RunStarts(l) ==
    {k \in 1 .. Len(l) : l[k] \notin DELIM /\ (k = 1 \/ l[k - 1] \in DELIM)}

\* Positions first .. last of line l are a maximal run of non-delimiter characters.
IsMaximalRun(l, first, last) ==
    /\ first <= last
    /\ \A k \in first .. last : l[k] \notin DELIM
    /\ first = 1 \/ l[first - 1] \in DELIM
    /\ last = Len(l) \/ l[last + 1] \in DELIM

\* The offsets the returned array points to, and the strings found there, in order.
TokenOffsets == [i \in 1 .. pos |-> tokens[i - 1].off]
TokenStrings == [i \in 1 .. pos |-> CString(tl_line, tokens[i - 1].off)]

\* C13: when tokenize_line returns, the tokens are exactly the maximal runs of
\* non-delimiter characters of the line, in their order: every token is a maximal
\* run (so it is not empty and holds no delimiter), every run is a token, the tokens
\* come in the order of the line, the count is their number, and the array element
\* after the last token is NULL.  For the lines of up to twice MaxLineLen
\* characters, which include the lines of LineSet, the result is also the one the
\* tokenize_line operator gives.
C13_TokensAreTheMaximalRuns ==
    tl_pc = "done" =>
        /\ \A i \in 1 .. pos :
              /\ tokens[i - 1] # NullPtr
              /\ \E last \in TokenOffsets[i] .. Len(tl_in) :
                    /\ IsMaximalRun(tl_in, TokenOffsets[i], last)
                    /\ TokenStrings[i] = SubSeq(tl_in, TokenOffsets[i], last)
              /\ Len(TokenStrings[i]) > 0
              /\ \A k \in 1 .. Len(TokenStrings[i]) : TokenStrings[i][k] \notin DELIM
              /\ i < pos => TokenOffsets[i] < TokenOffsets[i + 1]
        /\ {TokenOffsets[i] : i \in 1 .. pos} = RunStarts(tl_in)
        /\ pos = Cardinality(RunStarts(tl_in))
        /\ tokens[pos] = NullPtr
        /\ Len(tl_in) <= 2 * MaxLineLen =>
              tokenize_line(tl_in) = [args |-> TokenStrings, n_args |-> pos]

\* A line with leading, repeated and trailing delimiters has been tokenized.
C13_Witness ==
    /\ tl_pc = "done"
    /\ tl_in = <<" ", "a", "\t", "\n">>
    /\ pos = 1

\* C14, as stated: after the call the line buffer holds the characters it held
\* before, and no returned token points into the line buffer.
C14_TokenizeLeavesLineUntouched ==
    tl_pc = "done" =>
        /\ tl_line = tl_in \o <<NUL>>
        /\ \A i \in 0 .. (pos - 1) : tokens[i].blk # "line"

\* C14, amended: every returned token points into the line buffer, at the first
\* character of its run; after the call the buffer holds NUL in place of the
\* delimiter that follows each run, and the characters it was passed everywhere else.
C14_TokensPointIntoTheLine ==
    tl_pc = "done" =>
        /\ \A i \in 0 .. (pos - 1) :
              /\ tokens[i].blk = "line"
              /\ tokens[i].off \in RunStarts(tl_in)
        /\ Len(tl_line) = Len(tl_in) + 1
        /\ tl_line[Len(tl_line)] = NUL
        /\ \A k \in 1 .. Len(tl_in) :
              IF k > 1 /\ tl_in[k] \in DELIM /\ tl_in[k - 1] \notin DELIM
              THEN tl_line[k] = NUL
              ELSE tl_line[k] = tl_in[k]

\* A line of two tokens has been tokenized: the buffer has changed and both tokens
\* point into it.
C14_Witness ==
    /\ tl_pc = "done"
    /\ tl_in = L_ls
    /\ tl_line # tl_in \o <<NUL>>
    /\ pos = 2 /\ tokens[1] = LinePtr(4)

\* C18: every write to tokens[], the write of the final NULL included, is at an
\* index from 0 to tokens_list_len - 1, and a step of the loop, resizing or not,
\* leaves the tokens stored so far where they are.
C18_WritesStayInsideTheArray ==
    [][/\ lastWrite' # NoWrite =>
              (0 <= lastWrite'.pos /\ lastWrite'.pos < lastWrite'.len)
       /\ tl_pc' # "exit_failure" =>
              /\ DOMAIN tokens' = 0 .. (tokens_list_len' - 1)
              /\ \A i \in 0 .. (pos - 1) : tokens'[i] = tokens[i]
              /\ pos' > pos => tokens'[pos] = token]_vars

\* A line of more tokens than twice the initial capacity has been tokenized.
C18_Witness ==
    /\ tl_pc = "done"
    /\ pos > 2 * InitialTokensListLen
    /\ tokens_list_len = 4 * InitialTokensListLen
    /\ lastWrite.pos = pos

====
